---- MODULE Spec2Model ----
(***************************************************************************)
(* Gecko backend: activity lifecycle, contract hour ledger, worker         *)
(* availability and invoice generation.                                    *)
(*                                                                         *)
(* The store (Prisma over PostgreSQL) is modelled by its tables. Every     *)
(* `await prisma...` call of a handler is one atomic step; a handler with  *)
(* several store calls is a little process whose position and locals are   *)
(* kept in requests[p], so that requests interleave between their store    *)
(* calls exactly as Express requests do.                                   *)
(*                                                                         *)
(* Instants are counted in whole hours since an epoch; DateMs turns an     *)
(* instant into the millisecond value a JavaScript Date holds.             *)
(***************************************************************************)
EXTENDS Integers, FiniteSets, Sequences, TLC

\* ---------------------------------------------------------------- bounds
MaxActs == 2        \* activities ever created (ids 1..MaxActs, never reused)
MaxInvoices == 2    \* invoices ever generated

\* ---------------------------------------------------------------- values
Null == "null"      \* SQL NULL / JavaScript null
Undefined == "undefined"    \* a field the request body does not carry
NoId == 0           \* "no activity id" (activity ids are 1..MaxActs)
NoDate == -1        \* a date the request body does not carry

ActivityStatus ==
    <<"UNASSIGNED", "SCHEDULED", "IN_PROGRESS", "DONE", "VERIFIED", "INVOICED">>

StatusSet == {ActivityStatus[i] : i \in 1..Len(ActivityStatus)}

StatusIndex(st) == CHOOSE i \in 1..Len(ActivityStatus) : ActivityStatus[i] = st

ActIds == 1..MaxActs

InvoiceStatus == <<"DRAFT", "SENT", "PAID">>

InvoiceStatusIndex(st) == CHOOSE i \in 1..Len(InvoiceStatus) : InvoiceStatus[i] = st

Procs == {1, 2}     \* request slots: at most two multi-step requests in flight

\* The seeded rows of the tables no modelled handler writes.
\* clients: id -> row; billingRate is a nullable column, and the row of c2
\* has none
clients ==
    [c \in {"c1", "c2"} |->
        IF c = "c1" THEN [name |-> "c1", billingRate |-> 50] ELSE [name |-> "c2"]]

\* contracts: id -> clientId, totalHours
contracts ==
    [k \in {"k1", "k2"} |->
        [clientId |-> "c1", totalHours |-> IF k = "k1" THEN 2 ELSE 10]]

\* users with role WORKER: id -> hourlyRate
workers == [w \in {"w1", "w2"} |-> [hourlyRate |-> 20]]

VARIABLES
    activities,     \* table activities: id -> row
    nextId,         \* number of activities created so far
    invoices,       \* table invoices, in creation order
    requests,       \* per request slot: the handler's position and locals
    last            \* the response most recently sent

vars == <<activities, nextId, invoices, requests, last>>

\* ---------------------------------------------------------------- helpers
RECURSIVE SumOver(_, _)
SumOver(f, S) ==
    IF S = {} THEN 0
    ELSE LET x == CHOOSE y \in S : TRUE IN f[x] + SumOver(f, S \ {x})

DateMs(t) == t * 3600000

Idle == [pc |-> "idle"]

\* An HTTP response: the handler that answered and the status code; Resp409
\* adds the conflicting activities of the body, RespHours the remaining
\* hours that "Insufficient hours. Remaining: ..." quotes.
Resp(op, code) == [op |-> op, code |-> code]

Resp409(op, conflicting) ==
    [op |-> op, code |-> 409, conflictingActivities |-> conflicting]

RespHours(op, code, remaining) ==
    [op |-> op, code |-> code, remaining |-> remaining]

\* A new request takes the lowest free slot.
FreeSlot(p) ==
    /\ requests[p].pc = "idle"
    /\ \A q \in Procs : q < p => requests[q].pc # "idle"

\* ------------------------------------------------- services/activityService
calculateDuration(start, end) ==
    (DateMs(end) - DateMs(start)) \div (1000 * 60 * 60)

\* A ledger check that refuses a request for exactly the remaining hours
\* (hours >= remaining); the capacity property must tell it from
\* validateContractHours.
validateContractHours_refusesExactFit(acts, contractId, hours) ==
    IF contractId \notin DOMAIN contracts
    THEN [result |-> "notfound", remaining |-> 0]
    ELSE LET included == {i \in DOMAIN acts :
                            /\ acts[i].contractId = contractId
                            /\ acts[i].status \in {"VERIFIED", "INVOICED"}}
             usedHours == SumOver([i \in included |-> acts[i].durationHours], included)
             remaining == contracts[contractId].totalHours - usedHours
         IN IF hours >= remaining
            THEN [result |-> "insufficient", remaining |-> remaining]
            ELSE [result |-> "ok", remaining |-> remaining]

\* A ledger check that reserves: it counts every linked activity, whatever
\* its status; the look-ahead property must tell it from
\* validateContractHours.
validateContractHours_reserving(acts, contractId, hours) ==
    IF contractId \notin DOMAIN contracts
    THEN [result |-> "notfound", remaining |-> 0]
    ELSE LET included == {i \in DOMAIN acts : acts[i].contractId = contractId}
             usedHours == SumOver([i \in included |-> acts[i].durationHours], included)
             remaining == contracts[contractId].totalHours - usedHours
         IN IF hours > remaining
            THEN [result |-> "insufficient", remaining |-> remaining]
            ELSE [result |-> "ok", remaining |-> remaining]

\* validateContractHours: the contract with its VERIFIED and INVOICED
\* activities, their hours summed; "notfound", "insufficient" (hours >
\* remaining) or "ok", with the remaining hours the error message quotes.
validateContractHours(acts, contractId, hours) ==
    IF contractId \notin DOMAIN contracts
    THEN [result |-> "notfound", remaining |-> 0]
    ELSE LET included == {i \in DOMAIN acts :
                            /\ acts[i].contractId = contractId
                            /\ acts[i].status \in {"VERIFIED", "INVOICED"}}
             usedHours == SumOver([i \in included |-> acts[i].durationHours], included)
             remaining == contracts[contractId].totalHours - usedHours
         IN IF hours > remaining
            THEN [result |-> "insufficient", remaining |-> remaining]
            ELSE [result |-> "ok", remaining |-> remaining]

\* An availability check with strict comparisons (intervals that only touch
\* do not conflict); the conflict-set property must tell it from
\* checkWorkerAvailability.
checkWorkerAvailability_strict(acts, workerId, scheduledStart, scheduledEnd, excludeActivityId) ==
    LET conflicting ==
            {i \in DOMAIN acts :
                /\ acts[i].workerId = workerId
                /\ (excludeActivityId # NoId => i # excludeActivityId)
                /\ acts[i].status \in {"SCHEDULED", "IN_PROGRESS"}
                /\ DateMs(acts[i].scheduledStart) < DateMs(scheduledEnd)
                /\ DateMs(acts[i].scheduledEnd) > DateMs(scheduledStart)}
    IN [available |-> Cardinality(conflicting) = 0,
        conflictingActivities |-> conflicting]

checkWorkerAvailability(acts, workerId, scheduledStart, scheduledEnd, excludeActivityId) ==
    LET conflicting ==
            {i \in DOMAIN acts :
                /\ acts[i].workerId = workerId
                /\ (excludeActivityId # NoId => i # excludeActivityId)
                /\ acts[i].status \in {"SCHEDULED", "IN_PROGRESS"}
                /\ DateMs(acts[i].scheduledStart) <= DateMs(scheduledEnd)
                /\ DateMs(acts[i].scheduledEnd) >= DateMs(scheduledStart)}
    IN [available |-> Cardinality(conflicting) = 0,
        conflictingActivities |-> conflicting]

\* A ledger answer that counts VERIFIED activities only; the ledger
\* property must tell it from getHoursRemaining.
getHoursRemaining_verifiedOnly(acts, contractId) ==
    LET included == {i \in DOMAIN acts :
                        /\ acts[i].contractId = contractId
                        /\ acts[i].status \in {"VERIFIED"}}
        usedHours == SumOver([i \in included |-> acts[i].durationHours], included)
        remaining == contracts[contractId].totalHours - usedHours
    IN [contractId |-> contractId,
        totalHours |-> contracts[contractId].totalHours,
        usedHours |-> usedHours,
        remaining |-> remaining]

\* ------------------------------------------------- controllers/contracts
\* getHoursRemaining, the answer computed from the contract found
getHoursRemaining(acts, contractId) ==
    LET included == {i \in DOMAIN acts :
                        /\ acts[i].contractId = contractId
                        /\ acts[i].status \in {"VERIFIED", "INVOICED"}}
        usedHours == SumOver([i \in included |-> acts[i].durationHours], included)
        remaining == contracts[contractId].totalHours - usedHours
    IN [contractId |-> contractId,
        totalHours |-> contracts[contractId].totalHours,
        usedHours |-> usedHours,
        remaining |-> remaining]

\* ---------------------------------------------------------------- Init
Init ==
    /\ activities = <<>>
    /\ nextId = 0
    /\ invoices = <<>>
    /\ requests = [p \in Procs |-> Idle]
    /\ last = Resp("none", 0)

\* ------------------------------------------------- controllers/activities
\* A refinement that lets an empty interval through (end >= start); the
\* date property must tell it from validateActivity.
validateActivity_allowsEmptyInterval(scheduledStart, scheduledEnd) ==
    DateMs(scheduledEnd) >= DateMs(scheduledStart)

\* activitySchema's refinement: new Date(scheduledEnd) > new Date(scheduledStart)
validateActivity(scheduledStart, scheduledEnd) ==
    DateMs(scheduledEnd) > DateMs(scheduledStart)

\* A row whose foreign keys do not resolve is refused by the database.
ForeignKeysOk(clientId, contractId, workerId) ==
    /\ clientId \in DOMAIN clients
    /\ contractId = Null \/ contractId \in DOMAIN contracts
    /\ workerId = Null \/ workerId \in DOMAIN workers

\* prisma.activity.create({ data: { ...data, durationHours, status: 'UNASSIGNED' } })
createRow(r) ==
    IF ForeignKeysOk(r.clientId, r.contractId, r.workerId)
    THEN /\ nextId' = nextId + 1
         /\ activities' = (nextId + 1) :> [clientId |-> r.clientId,
                                            contractId |-> r.contractId,
                                            workerId |-> r.workerId,
                                            status |-> "UNASSIGNED",
                                            scheduledStart |-> r.s,
                                            scheduledEnd |-> r.e,
                                            durationHours |-> calculateDuration(r.s, r.e)]
                          @@ activities
         /\ last' = Resp("create", 201)
    ELSE /\ UNCHANGED <<nextId, activities>>
         /\ last' = Resp("create", 500)

\* create, up to and including validateContractHours; without a contractId
\* nothing is awaited before prisma.activity.create, so the row is written
\* in the same step.
create(p, clientId, contractId, workerId, s, e) ==
    /\ FreeSlot(p)
    /\ nextId < MaxActs
    /\ LET r == [pc |-> "create_write", clientId |-> clientId,
                 contractId |-> contractId, workerId |-> workerId, s |-> s, e |-> e]
       IN IF ~validateActivity(s, e)
          THEN /\ last' = Resp("create", 400)
               /\ UNCHANGED <<activities, nextId, requests>>
          ELSE IF contractId = Null
          THEN /\ createRow(r)
               /\ UNCHANGED requests
          ELSE LET v == validateContractHours(activities, contractId,
                                              calculateDuration(s, e))
               IN CASE v.result = "notfound" ->
                        /\ last' = Resp("create", 404)
                        /\ UNCHANGED <<activities, nextId, requests>>
                    [] v.result = "insufficient" ->
                        /\ last' = RespHours("create", 400, v.remaining)
                        /\ UNCHANGED <<activities, nextId, requests>>
                    [] OTHER ->
                        /\ requests' = [requests EXCEPT ![p] = r]
                        /\ UNCHANGED <<activities, nextId, last>>
    /\ UNCHANGED invoices

\* create, the prisma.activity.create call after the ledger check passed
create_write(p) ==
    /\ requests[p].pc = "create_write"
    /\ createRow(requests[p])
    /\ requests' = [requests EXCEPT ![p] = Idle]
    /\ UNCHANGED invoices

\* A row update that stores new dates but keeps the stored durationHours;
\* the duration property must tell it from updateRow.
updateRow_keepsDuration(op, id, d) ==
    IF id \notin DOMAIN activities
    THEN /\ last' = Resp(op, 404)
         /\ UNCHANGED activities
    ELSE /\ activities' = [activities EXCEPT
                ![id].scheduledStart = IF d.dated THEN d.s ELSE @,
                ![id].scheduledEnd = IF d.dated THEN d.e ELSE @]
         /\ last' = Resp(op, 200)

\* prisma.activity.update({ where: { id }, data }): a field that is
\* Undefined in data is left alone; P2025 (answered 404) when the row is
\* gone; a foreign key that does not resolve is refused.
updateRow(op, id, d) ==
    IF id \notin DOMAIN activities
    THEN /\ last' = Resp(op, 404)
         /\ UNCHANGED activities
    ELSE LET old == activities[id]
             pick(new, cur) == IF new = Undefined THEN cur ELSE new
             row == [clientId |-> pick(d.clientId, old.clientId),
                     contractId |-> pick(d.contractId, old.contractId),
                     workerId |-> pick(d.workerId, old.workerId),
                     status |-> pick(d.status, old.status),
                     scheduledStart |-> IF d.dated THEN d.s ELSE old.scheduledStart,
                     scheduledEnd |-> IF d.dated THEN d.e ELSE old.scheduledEnd,
                     durationHours |-> IF d.dated THEN calculateDuration(d.s, d.e)
                                       ELSE old.durationHours]
         IN IF ForeignKeysOk(row.clientId, row.contractId, row.workerId)
            THEN /\ activities' = [activities EXCEPT ![id] = row]
                 /\ last' = Resp(op, 200)
            ELSE /\ UNCHANGED activities
                 /\ last' = Resp(op, 500)

\* controllers/activities.update: the whole body passes validateActivity
\* (clientId and both dates are required; contractId and workerId may be
\* absent), then validateContractHours when a contractId is given.
update(p, id, clientId, contractId, workerId, s, e) ==
    /\ FreeSlot(p)
    /\ LET d == [pc |-> "update_write", id |-> id, clientId |-> clientId,
                 contractId |-> contractId, workerId |-> workerId,
                 status |-> Undefined, s |-> s, e |-> e, dated |-> TRUE]
       IN IF ~validateActivity(s, e)
          THEN /\ last' = Resp("update", 400)
               /\ UNCHANGED <<activities, requests>>
          ELSE IF contractId \in {Null, Undefined}
          THEN /\ updateRow("update", id, d)
               /\ UNCHANGED requests
          ELSE LET v == validateContractHours(activities, contractId,
                                              calculateDuration(s, e))
               IN CASE v.result = "notfound" ->
                        /\ last' = Resp("update", 404)
                        /\ UNCHANGED <<activities, requests>>
                    [] v.result = "insufficient" ->
                        /\ last' = RespHours("update", 400, v.remaining)
                        /\ UNCHANGED <<activities, requests>>
                    [] OTHER ->
                        /\ requests' = [requests EXCEPT ![p] = d]
                        /\ UNCHANGED <<activities, last>>
    /\ UNCHANGED <<nextId, invoices>>

\* controllers/activities.update, the prisma.activity.update call
update_write(p) ==
    /\ requests[p].pc = "update_write"
    /\ updateRow("update", requests[p].id, requests[p])
    /\ requests' = [requests EXCEPT ![p] = Idle]
    /\ UNCHANGED <<nextId, invoices>>

\* router.patch('/:id') of the TypeScript routes: a partial update that also
\* takes status and workerId from the body. Without a date in the body the
\* row is written at once; with one, the row is read first.
patchActivity(p, id, contractId, workerId, status, s, e) ==
    /\ FreeSlot(p)
    /\ LET d == [pc |-> "patch_update", id |-> id, clientId |-> Undefined,
                 contractId |-> contractId, workerId |-> workerId,
                 status |-> status, s |-> s, e |-> e, dated |-> FALSE]
       IN IF s = NoDate /\ e = NoDate
          THEN /\ updateRow("patch", id, d)
               /\ UNCHANGED requests
          ELSE IF id \notin DOMAIN activities
          THEN /\ last' = Resp("patch", 404)
               /\ UNCHANGED <<activities, requests>>
          ELSE LET existing == activities[id]
                   startDate == IF s # NoDate THEN s ELSE existing.scheduledStart
                   endDate == IF e # NoDate THEN e ELSE existing.scheduledEnd
                   finalContractId == IF contractId # Undefined THEN contractId
                                      ELSE existing.contractId
               IN IF DateMs(endDate) <= DateMs(startDate)
                  THEN /\ last' = Resp("patch", 400)
                       /\ UNCHANGED <<activities, requests>>
                  ELSE /\ requests' = [requests EXCEPT ![p] =
                              [d EXCEPT !.pc = IF finalContractId # Null
                                               THEN "patch_validate" ELSE "patch_update",
                                        !.s = startDate, !.e = endDate, !.dated = TRUE]
                              @@ [finalContractId |-> finalContractId]]
                       /\ UNCHANGED <<activities, last>>
    /\ UNCHANGED <<nextId, invoices>>

\* router.patch('/:id'), the validateContractHours call: its plain Error
\* reaches next(error) and is answered 500.
patchActivity_validate(p) ==
    /\ requests[p].pc = "patch_validate"
    /\ LET r == requests[p]
           v == validateContractHours(activities, r.finalContractId,
                                      calculateDuration(r.s, r.e))
       IN IF v.result = "ok"
          THEN /\ requests' = [requests EXCEPT ![p].pc = "patch_update"]
               /\ UNCHANGED last
          ELSE /\ requests' = [requests EXCEPT ![p] = Idle]
               /\ last' = RespHours("patch", 500, v.remaining)
    /\ UNCHANGED <<activities, nextId, invoices>>

\* router.patch('/:id'), the prisma.activity.update call
patchActivity_update(p) ==
    /\ requests[p].pc = "patch_update"
    /\ updateRow("patch", requests[p].id, requests[p])
    /\ requests' = [requests EXCEPT ![p] = Idle]
    /\ UNCHANGED <<nextId, invoices>>

\* updateStatus: prisma.activity.update({ data: { status } }), no check of
\* the current status; deductContractHours is a no-op.
updateStatus(id, status) ==
    /\ IF id \in DOMAIN activities
       THEN /\ activities' = [activities EXCEPT ![id].status = status]
            /\ last' = Resp("updateStatus", 200)
       ELSE /\ UNCHANGED activities
            /\ last' = Resp("updateStatus", 404)
    /\ UNCHANGED <<nextId, invoices, requests>>

\* A delete that refuses an activity already billed; the delete property
\* must tell it from deleteActivity.
deleteActivity_keepsBilled(id) ==
    /\ IF id \in DOMAIN activities /\ activities[id].status # "INVOICED"
       THEN /\ activities' = [i \in DOMAIN activities \ {id} |-> activities[i]]
            /\ last' = Resp("delete", 204)
       ELSE /\ UNCHANGED activities
            /\ last' = Resp("delete", 404)
    /\ UNCHANGED <<nextId, invoices, requests>>

deleteActivity(id) ==
    /\ IF id \in DOMAIN activities
       THEN /\ activities' = [i \in DOMAIN activities \ {id} |-> activities[i]]
            /\ last' = Resp("delete", 204)
       ELSE /\ UNCHANGED activities
            /\ last' = Resp("delete", 404)
    /\ UNCHANGED <<nextId, invoices, requests>>

\* assignWorker, the prisma.activity.findUnique call
assignWorker(p, id, workerId) ==
    /\ FreeSlot(p)
    /\ IF id \notin DOMAIN activities
       THEN /\ last' = Resp("assign", 404)
            /\ UNCHANGED requests
       ELSE /\ requests' = [requests EXCEPT ![p] =
                    [pc |-> IF workerId \in {Null, Undefined}
                            THEN "assign_update" ELSE "assign_check",
                     id |-> id, workerId |-> workerId,
                     s |-> activities[id].scheduledStart,
                     e |-> activities[id].scheduledEnd]]
            /\ UNCHANGED last
    /\ UNCHANGED <<activities, nextId, invoices>>

\* assignWorker, the checkWorkerAvailability call and the 409 answer
assignWorker_check(p) ==
    /\ requests[p].pc = "assign_check"
    /\ LET r == requests[p]
           availability == checkWorkerAvailability(activities, r.workerId, r.s, r.e, r.id)
       IN IF ~availability.available
          THEN /\ last' = Resp409("assign", availability.conflictingActivities)
               /\ requests' = [requests EXCEPT ![p] = Idle]
          ELSE /\ requests' = [requests EXCEPT ![p].pc = "assign_update"]
               /\ UNCHANGED last
    /\ UNCHANGED <<activities, nextId, invoices>>

\* An assignment write that stores the worker but leaves the status alone;
\* the assignment property must tell it from assignWorker_update.
assignWorker_update_keepsStatus(p) ==
    /\ requests[p].pc = "assign_update"
    /\ LET r == requests[p]
       IN IF r.id \notin DOMAIN activities
          THEN /\ last' = Resp("assign", 404)
               /\ UNCHANGED activities
          ELSE /\ activities' = [activities EXCEPT ![r.id].workerId = r.workerId]
               /\ last' = Resp("assign", 200)
    /\ requests' = [requests EXCEPT ![p] = Idle]
    /\ UNCHANGED <<nextId, invoices>>

\* assignWorker, the prisma.activity.update call: a workerId the body does
\* not carry leaves the column alone, null clears it.
assignWorker_update(p) ==
    /\ requests[p].pc = "assign_update"
    /\ LET r == requests[p]
           given == r.workerId \notin {Null, Undefined}
       IN IF r.id \notin DOMAIN activities
          THEN /\ last' = Resp("assign", 404)
               /\ UNCHANGED activities
          ELSE IF given /\ r.workerId \notin DOMAIN workers
          THEN /\ last' = Resp("assign", 500)
               /\ UNCHANGED activities
          ELSE /\ activities' = [activities EXCEPT
                    ![r.id].workerId = IF r.workerId = Undefined THEN @ ELSE r.workerId,
                    ![r.id].status = IF given THEN "SCHEDULED" ELSE "UNASSIGNED"]
               /\ last' = Resp("assign", 200)
    /\ requests' = [requests EXCEPT ![p] = Idle]
    /\ UNCHANGED <<nextId, invoices>>

\* ------------------------------------------------- controllers/workers
checkAvailability(workerId, scheduledStart, scheduledEnd, excludeActivityId) ==
    /\ LET availability == checkWorkerAvailability(activities, workerId, scheduledStart,
                                                   scheduledEnd, excludeActivityId)
       IN last' = [op |-> "checkAvailability", code |-> 200,
                   available |-> availability.available,
                   conflictingActivities |-> availability.conflictingActivities]
    /\ UNCHANGED <<activities, nextId, invoices, requests>>

\* ------------------------------------------------- controllers/contracts
hoursRemaining(contractId) ==
    /\ IF contractId \notin DOMAIN contracts
       THEN last' = Resp("hoursRemaining", 404)
       ELSE LET r == getHoursRemaining(activities, contractId)
            IN last' = [op |-> "hoursRemaining", code |-> 200,
                        totalHours |-> r.totalHours, usedHours |-> r.usedHours,
                        remaining |-> r.remaining]
    /\ UNCHANGED <<activities, nextId, invoices, requests>>

\* ------------------------------------------------- services/invoiceService
\* A selection that takes every VERIFIED activity of the client that
\* overlaps the period; the selection property must tell it from
\* selectClientActivities.
selectClientActivities_overlapping(acts, clientId, periodStart, periodEnd) ==
    {i \in DOMAIN acts :
        /\ acts[i].clientId = clientId
        /\ acts[i].status = "VERIFIED"
        /\ DateMs(acts[i].scheduledStart) <= DateMs(periodEnd)
        /\ DateMs(acts[i].scheduledEnd) >= DateMs(periodStart)}

\* where: { clientId, status: 'VERIFIED', scheduledStart >= periodStart,
\*          scheduledEnd <= periodEnd }
selectClientActivities(acts, clientId, periodStart, periodEnd) ==
    {i \in DOMAIN acts :
        /\ acts[i].clientId = clientId
        /\ acts[i].status = "VERIFIED"
        /\ DateMs(acts[i].scheduledStart) >= DateMs(periodStart)
        /\ DateMs(acts[i].scheduledEnd) <= DateMs(periodEnd)}

selectWorkerActivities(acts, workerId, periodStart, periodEnd) ==
    {i \in DOMAIN acts :
        /\ acts[i].workerId = workerId
        /\ acts[i].status = "VERIFIED"
        /\ DateMs(acts[i].scheduledStart) >= DateMs(periodStart)
        /\ DateMs(acts[i].scheduledEnd) <= DateMs(periodEnd)}

InFlightInvoices ==
    Cardinality({q \in Procs : requests[q].pc \in
                    {"invoice_create", "invoice_update", "payout_create"}})

\* A refinement that lets an empty period through (end >= start); the
\* validation property must tell it from validateInvoice.
validateInvoice_allowsEmptyPeriod(periodStart, periodEnd) ==
    DateMs(periodEnd) >= DateMs(periodStart)

\* invoiceSchema's refinement: new Date(periodEnd) > new Date(periodStart)
validateInvoice(periodStart, periodEnd) == DateMs(periodEnd) > DateMs(periodStart)

\* const billingRate = client.billingRate || 0
billingRateOf(client) ==
    IF "billingRate" \in DOMAIN client /\ client.billingRate # 0
    THEN client.billingRate ELSE 0

\* controllers/invoices.generateClientInvoice (validateInvoice) and the two
\* reads of services/invoiceService.generateClientInvoice: the activities
\* found are held by the request, the total is computed from them. (The
\* clients table is not written by any handler here, so reading the client
\* in the same step as the activities loses no interleaving.)
generateClientInvoice(p, clientId, periodStart, periodEnd) ==
    /\ FreeSlot(p)
    /\ Len(invoices) + InFlightInvoices < MaxInvoices
    /\ IF ~validateInvoice(periodStart, periodEnd)
       THEN /\ last' = Resp("clientInvoice", 400)
            /\ UNCHANGED requests
       ELSE IF clientId \notin DOMAIN clients
       THEN /\ last' = Resp("clientInvoice", 500)
            /\ UNCHANGED requests
       ELSE LET found == selectClientActivities(activities, clientId, periodStart, periodEnd)
                billingRate == billingRateOf(clients[clientId])
                amount == [i \in found |-> activities[i].durationHours * billingRate]
            IN /\ requests' = [requests EXCEPT ![p] =
                       [pc |-> "invoice_create", clientId |-> clientId,
                        s |-> periodStart, e |-> periodEnd,
                        sel |-> found, total |-> SumOver(amount, found)]]
               /\ UNCHANGED last
    /\ UNCHANGED <<activities, nextId, invoices>>

\* generateClientInvoice, the prisma.invoice.create call. The invoice row is
\* kept together with the activities the service returns beside it.
generateClientInvoice_create(p) ==
    /\ requests[p].pc = "invoice_create"
    /\ LET r == requests[p]
       IN invoices' = Append(invoices,
                [type |-> "CLIENT_BILL", entityId |-> r.clientId,
                 totalAmount |-> r.total, periodStart |-> r.s, periodEnd |-> r.e,
                 status |-> "DRAFT", activities |-> r.sel])
    /\ requests' = [requests EXCEPT ![p].pc = "invoice_update"]
    /\ UNCHANGED <<activities, nextId, last>>

\* generateClientInvoice, the prisma.activity.updateMany call:
\* where: { id: { in: ids } }, data: { status: 'INVOICED' }
generateClientInvoice_updateMany(p) ==
    /\ requests[p].pc = "invoice_update"
    /\ activities' = [i \in DOMAIN activities |->
                        IF i \in requests[p].sel
                        THEN [activities[i] EXCEPT !.status = "INVOICED"]
                        ELSE activities[i]]
    /\ requests' = [requests EXCEPT ![p] = Idle]
    /\ last' = Resp("clientInvoice", 201)
    /\ UNCHANGED <<nextId, invoices>>

\* generateWorkerPayout, its two reads
generateWorkerPayout(p, workerId, periodStart, periodEnd) ==
    /\ FreeSlot(p)
    /\ Len(invoices) + InFlightInvoices < MaxInvoices
    /\ IF ~validateInvoice(periodStart, periodEnd)
       THEN /\ last' = Resp("workerPayout", 400)
            /\ UNCHANGED requests
       ELSE IF workerId \notin DOMAIN workers
       THEN /\ last' = Resp("workerPayout", 500)
            /\ UNCHANGED requests
       ELSE LET found == selectWorkerActivities(activities, workerId, periodStart, periodEnd)
                hours == [i \in found |-> activities[i].durationHours]
                totalHours == SumOver(hours, found)
            IN /\ requests' = [requests EXCEPT ![p] =
                       [pc |-> "payout_create", workerId |-> workerId,
                        s |-> periodStart, e |-> periodEnd, sel |-> found,
                        total |-> totalHours * workers[workerId].hourlyRate]]
               /\ UNCHANGED last
    /\ UNCHANGED <<activities, nextId, invoices>>

\* A payout that also flips the activities it counted to INVOICED, as the
\* client invoice does; the payout property must tell it from
\* generateWorkerPayout_create.
generateWorkerPayout_create_flips(p) ==
    /\ requests[p].pc = "payout_create"
    /\ LET r == requests[p]
       IN /\ invoices' = Append(invoices,
                [type |-> "WORKER_PAYOUT", entityId |-> r.workerId,
                 totalAmount |-> r.total, periodStart |-> r.s, periodEnd |-> r.e,
                 status |-> "DRAFT", activities |-> r.sel])
          /\ activities' = [i \in DOMAIN activities |->
                                IF i \in r.sel
                                THEN [activities[i] EXCEPT !.status = "INVOICED"]
                                ELSE activities[i]]
    /\ requests' = [requests EXCEPT ![p] = Idle]
    /\ last' = Resp("workerPayout", 201)
    /\ UNCHANGED nextId

\* generateWorkerPayout, the prisma.invoice.create call
generateWorkerPayout_create(p) ==
    /\ requests[p].pc = "payout_create"
    /\ LET r == requests[p]
       IN invoices' = Append(invoices,
                [type |-> "WORKER_PAYOUT", entityId |-> r.workerId,
                 totalAmount |-> r.total, periodStart |-> r.s, periodEnd |-> r.e,
                 status |-> "DRAFT", activities |-> r.sel])
    /\ requests' = [requests EXCEPT ![p] = Idle]
    /\ last' = Resp("workerPayout", 201)
    /\ UNCHANGED <<activities, nextId>>

\* ------------------------------------------------- controllers/invoices
\* updateStatus: prisma.invoice.update({ where: { id }, data: { status } }),
\* no check of the current status; P2025 (answered 404) when there is no
\* such invoice.
invoices_updateStatus(i, status) ==
    /\ IF i \in 1..Len(invoices)
       THEN /\ invoices' = [invoices EXCEPT ![i].status = status]
            /\ last' = Resp("invoiceStatus", 200)
       ELSE /\ UNCHANGED invoices
            /\ last' = Resp("invoiceStatus", 404)
    /\ UNCHANGED <<activities, nextId, requests>>

\* ---------------------------------------------------------------- specifications
\* Billing: one client, no contracts or workers; two invoice runs may be in
\* flight together. The periods overlap; [1,1] and [2,2] are an interval and
\* a period that validation refuses.
BillingIntervals == {<<0, 1>>, <<1, 2>>, <<1, 1>>}

BillingPeriods == {<<0, 2>>, <<1, 3>>, <<2, 2>>}

BillingStep(Slots) ==
    \/ \E p \in Slots, iv \in BillingIntervals :
            create(p, "c1", Null, Null, iv[1], iv[2])
    \/ \E id \in ActIds, st \in StatusSet : updateStatus(id, st)
    \/ \E id \in ActIds : deleteActivity(id)
    \/ \E p \in Slots, pr \in BillingPeriods :
            generateClientInvoice(p, "c1", pr[1], pr[2])
    \/ \E p \in Slots : generateClientInvoice_create(p)
    \/ \E p \in Slots : generateClientInvoice_updateMany(p)

\* invoice runs one after the other
NextSequentialBilling == BillingStep({1})

SpecSequentialBilling == Init /\ [][NextSequentialBilling]_vars

\* two invoice runs may be in flight together
NextBilling == BillingStep(Procs)

SpecBilling == Init /\ [][NextBilling]_vars

\* Scheduling: one client, no contracts, worker w1; the intervals overlap
\* ([0,1] twice), touch ([0,1], [1,2]) or are apart ([0,1], [2,3]).
SchedulingIntervals == {<<0, 1>>, <<1, 2>>, <<2, 3>>}

SchedulingStep(Slots) ==
    \/ \E p \in Slots, iv \in SchedulingIntervals :
            create(p, "c1", Null, Null, iv[1], iv[2])
    \/ \E id \in ActIds, st \in StatusSet : updateStatus(id, st)
    \/ \E id \in ActIds : deleteActivity(id)
    \/ \E p \in Slots, id \in ActIds, w \in {"w1", Null} : assignWorker(p, id, w)
    \/ \E p \in Slots : assignWorker_check(p)
    \/ \E p \in Slots : assignWorker_update(p)
    \/ \E iv \in SchedulingIntervals, x \in ActIds \cup {NoId} :
            checkAvailability("w1", iv[1], iv[2], x)

\* one assign call in flight at a time
NextScheduling == SchedulingStep({1})

SpecScheduling == Init /\ [][NextScheduling]_vars

\* two assign calls may be in flight together
NextConcurrentAssign == SchedulingStep(Procs)

SpecConcurrentAssign == Init /\ [][NextConcurrentAssign]_vars

\* Ledger: one client and its contract k1 (k9 is no stored contract); an
\* activity lasts one or two hours.
LedgerIntervals == {<<0, 1>>, <<0, 2>>}

NextLedger ==
    \/ \E p \in {1}, k \in {"k1", "k9", Null}, iv \in LedgerIntervals :
            create(p, "c1", k, Null, iv[1], iv[2])
    \/ \E p \in {1} : create_write(p)
    \/ \E p \in {1}, id \in ActIds, k \in {"k1", Null, Undefined}, iv \in LedgerIntervals :
            update(p, id, "c1", k, Undefined, iv[1], iv[2])
    \/ \E p \in {1} : update_write(p)
    \/ \E p \in {1}, id \in ActIds, k \in {"k1", Undefined},
          st \in {"VERIFIED", "INVOICED", Undefined}, e \in {2, NoDate} :
            patchActivity(p, id, k, Undefined, st, NoDate, e)
    \/ \E p \in {1} : patchActivity_validate(p)
    \/ \E p \in {1} : patchActivity_update(p)
    \/ \E id \in ActIds, st \in StatusSet : updateStatus(id, st)
    \/ \E id \in ActIds : deleteActivity(id)
    \/ \E k \in {"k1", "k9"} : hoursRemaining(k)

SpecLedger == Init /\ [][NextLedger]_vars

\* Invoicing: clients c1 (rate 50) and c2 (no rate), worker w1 on every
\* activity; activities become DONE or VERIFIED; client invoice and worker
\* payout runs one at a time, for stored and unknown (c9, w9) targets. The
\* interval [1,3] lies partly outside the period [0,2]; [2,2] is a period
\* that validation refuses.
InvoicingIntervals == {<<0, 1>>, <<1, 3>>}

InvoicingPeriods == {<<0, 2>>, <<0, 3>>, <<2, 2>>}

NextInvoicing ==
    \/ \E p \in {1}, c \in {"c1", "c2"}, iv \in InvoicingIntervals :
            create(p, c, Null, "w1", iv[1], iv[2])
    \/ \E id \in ActIds, st \in {"DONE", "VERIFIED"} : updateStatus(id, st)
    \/ \E p \in {1}, c \in {"c1", "c2", "c9"}, pr \in InvoicingPeriods :
            generateClientInvoice(p, c, pr[1], pr[2])
    \/ \E p \in {1} : generateClientInvoice_create(p)
    \/ \E p \in {1} : generateClientInvoice_updateMany(p)
    \/ \E p \in {1}, w \in {"w1", "w9"}, pr \in InvoicingPeriods :
            generateWorkerPayout(p, w, pr[1], pr[2])
    \/ \E p \in {1} : generateWorkerPayout_create(p)

SpecInvoicing == Init /\ [][NextInvoicing]_vars

\* Payouts, requests served one after the other: an activity is created or
\* changes status only while no payout run is in flight. Activities belong
\* to worker w1 or w2; payout runs are for w1.
NextSequentialPayout ==
    \/ \E p \in {1}, w \in {"w1", "w2"}, iv \in InvoicingIntervals :
            /\ requests[p].pc = "idle"
            /\ create(p, "c1", Null, w, iv[1], iv[2])
    \/ \E id \in ActIds, st \in {"DONE", "VERIFIED"} :
            /\ \A q \in Procs : requests[q].pc = "idle"
            /\ updateStatus(id, st)
    \/ \E p \in {1}, pr \in InvoicingPeriods :
            generateWorkerPayout(p, "w1", pr[1], pr[2])
    \/ \E p \in {1} : generateWorkerPayout_create(p)

SpecSequentialPayout == Init /\ [][NextSequentialPayout]_vars

\* Rescheduling: one client, no contracts or workers; the dates of an
\* activity are replaced by a full update or by a partial update that
\* carries scheduledStart, scheduledEnd or both; two partial updates may be
\* in flight together.
RescheduleIntervals == {<<0, 2>>, <<1, 2>>}

NextReschedule ==
    \/ \E p \in Procs, iv \in RescheduleIntervals \cup {<<2, 2>>} :
            create(p, "c1", Null, Null, iv[1], iv[2])
    \/ \E p \in Procs, id \in ActIds, iv \in {<<0, 1>>, <<2, 2>>} :
            update(p, id, "c1", Undefined, Undefined, iv[1], iv[2])
    \/ \E p \in Procs, id \in ActIds, s \in {NoDate, 1, 3}, e \in {NoDate, 1, 3} :
            patchActivity(p, id, Undefined, Undefined, Undefined, s, e)
    \/ \E p \in Procs : patchActivity_update(p)

SpecReschedule == Init /\ [][NextReschedule]_vars

\* End to end: client c1 (rate 50), its contract k2 (10 hours), four-hour
\* activities linked to both, worker w1; one multi-step request at a time.
NextEndToEnd ==
    \/ \E p \in {1} : create(p, "c1", "k2", Null, 0, 4)
    \/ \E p \in {1} : create_write(p)
    \/ \E p \in {1}, id \in ActIds : assignWorker(p, id, "w1")
    \/ \E p \in {1} : assignWorker_check(p)
    \/ \E p \in {1} : assignWorker_update(p)
    \/ \E id \in ActIds, st \in StatusSet : updateStatus(id, st)
    \/ hoursRemaining("k2")
    \/ \E p \in {1} : generateClientInvoice(p, "c1", 0, 4)
    \/ \E p \in {1} : generateClientInvoice_create(p)
    \/ \E p \in {1} : generateClientInvoice_updateMany(p)

SpecEndToEnd == Init /\ [][NextEndToEnd]_vars

\* Invoice status: invoices of client c1 are generated one run at a time
\* and their status is set by direct calls.
NextInvoiceStatus ==
    \/ \E p \in {1} : create(p, "c1", Null, Null, 0, 1)
    \/ \E id \in ActIds : updateStatus(id, "VERIFIED")
    \/ \E p \in {1} : generateClientInvoice(p, "c1", 0, 2)
    \/ \E p \in {1} : generateClientInvoice_create(p)
    \/ \E p \in {1} : generateClientInvoice_updateMany(p)
    \/ \E i \in 1..MaxInvoices, st \in {"DRAFT", "SENT", "PAID"} :
            invoices_updateStatus(i, st)

SpecInvoiceStatus == Init /\ [][NextInvoiceStatus]_vars

\* Lifecycle: one client, no contracts; an activity may be created with a
\* worker, and an assign call may name worker w1, carry workerId null or
\* carry no workerId at all. (The TypeScript route stores `workerId || null`,
\* so there a body without workerId behaves as assignWorker with Null.)
LifecycleIntervals == {<<0, 1>>, <<1, 2>>}

NextLifecycle ==
    \/ \E p \in {1}, w \in {"w1", Null}, iv \in LifecycleIntervals :
            create(p, "c1", Null, w, iv[1], iv[2])
    \/ \E id \in ActIds, st \in StatusSet : updateStatus(id, st)
    \/ \E id \in ActIds : deleteActivity(id)
    \/ \E p \in {1}, id \in ActIds, w \in {"w1", "w9", Null, Undefined} :
            assignWorker(p, id, w)
    \/ \E p \in {1} : assignWorker_check(p)
    \/ \E p \in {1} : assignWorker_update(p)

SpecLifecycle == Init /\ [][NextLifecycle]_vars

\* Deletion: activities of client c1, linked to contract k1 or to none,
\* take any status, are billed by client invoice runs and are deleted at any
\* point, also while a run is in flight.
DeletionIntervals == {<<0, 1>>, <<0, 2>>}

NextDeletion ==
    \/ \E p \in {1}, k \in {"k1", Null}, iv \in DeletionIntervals :
            create(p, "c1", k, Null, iv[1], iv[2])
    \/ \E p \in {1} : create_write(p)
    \/ \E id \in ActIds, st \in StatusSet : updateStatus(id, st)
    \/ \E id \in ActIds : deleteActivity(id)
    \/ \E p \in {1} : generateClientInvoice(p, "c1", 0, 2)
    \/ \E p \in {1} : generateClientInvoice_create(p)
    \/ \E p \in {1} : generateClientInvoice_updateMany(p)

SpecDeletion == Init /\ [][NextDeletion]_vars

\* ---------------------------------------------------------------- properties
ClientBills == {i \in 1..Len(invoices) : invoices[i].type = "CLIENT_BILL"}

\* the activities some stored client invoice counted
BilledActivities == UNION {invoices[i].activities : i \in ClientBills}

AllIdle == \A q \in Procs : requests[q].pc = "idle"

\* C1: at-most-once client billing, invoice runs one after the other.
\* (a) The step that completes an invoice run leaves every activity the run
\* selected INVOICED; (b) an invoice run that starts while no other request
\* is in flight selects no activity that a stored client invoice (an
\* earlier run) already counted.
C1_AtMostOnceBilling ==
    [][\A p \in Procs :
        /\ (requests[p].pc = "invoice_update" /\ requests'[p].pc = "idle")
              => \A a \in requests[p].sel \cap DOMAIN activities' :
                    activities'[a].status = "INVOICED"
        /\ (AllIdle /\ requests'[p].pc = "invoice_create")
              => requests'[p].sel \cap BilledActivities = {}]_vars

\* C2: two invoice runs in flight together, each with its invoice already
\* created, have counted disjoint sets of activities.
C2_ConcurrentRunsPartition ==
    \A p, q \in Procs :
        (/\ p # q
         /\ requests[p].pc = "invoice_update"
         /\ requests[q].pc = "invoice_update")
        => requests[p].sel \cap requests[q].sel = {}

Overlap(s1, e1, s2, e2) == s1 <= e2 /\ e1 >= s2

\* C3: two assign calls in flight together for the same worker, on two
\* different activities whose intervals conflict, never both get past the
\* availability check (one of them is answered 409).
C3_OneConcurrentAssignWins ==
    \A p, q \in Procs :
        (/\ p # q
         /\ requests[p].pc = "assign_update"
         /\ requests[q].pc = "assign_update"
         /\ requests[p].workerId \in DOMAIN workers
         /\ requests[q].workerId = requests[p].workerId
         /\ requests[p].id # requests[q].id)
        => ~Overlap(requests[p].s, requests[p].e, requests[q].s, requests[q].e)

\* C4: the invoice row and the status flip are one atomic unit: no state
\* holds the client invoice of a run that has not flipped its activities
\* yet while an activity this invoice counted is still VERIFIED.
C4_InvoiceAndFlipAtomic ==
    \A p \in Procs :
        requests[p].pc = "invoice_update"
        => \A a \in requests[p].sel \cap DOMAIN activities :
                activities[a].status # "VERIFIED"

\* C5: setStatus(id, newStatus) on a stored activity writes newStatus only
\* when it is the status right after the current one in the sequence
\* UNASSIGNED .. INVOICED; any other request (backward, same status,
\* skipping) is refused and leaves the table unchanged.
C5_ForwardOnly ==
    [][\A id \in ActIds, st \in StatusSet :
        (id \in DOMAIN activities /\ updateStatus(id, st))
        => IF StatusIndex(st) = StatusIndex(activities[id].status) + 1
           THEN activities'[id].status = st
           ELSE last'.code # 200 /\ activities' = activities]_vars

\* C6: every activity whose status is INVOICED was counted by a stored
\* client invoice (it was flipped by an invoice run).
C6_InvoicedOnlyByGenerator ==
    \A a \in DOMAIN activities :
        activities[a].status = "INVOICED" => a \in BilledActivities

\* The ledger of contract k as the specification words it: every activity
\* linked to k contributes its durationHours when its status is VERIFIED or
\* INVOICED and 0 otherwise.
LedgerUsed(k) ==
    LET linked == {i \in DOMAIN activities : activities[i].contractId = k}
        part == [i \in linked |->
                    IF activities[i].status \in {"VERIFIED", "INVOICED"}
                    THEN activities[i].durationHours ELSE 0]
    IN SumOver(part, linked)

LedgerRemaining(k) == contracts[k].totalHours - LedgerUsed(k)

RequestHours == 1..3

\* C7: for every contract, in every state that takes a step, the service's
\* validateContractHours computes remaining = totalHours - used over that
\* ledger, and a hoursRemaining call answers usedHours = used and
\* remaining = totalHours - used over the same ledger.
C7_SameLedger ==
    [][\A k \in DOMAIN contracts :
        /\ \A h \in RequestHours :
              validateContractHours(activities, k, h).remaining = LedgerRemaining(k)
        /\ hoursRemaining(k)
              => /\ last'.code = 200
                 /\ last'.usedHours = LedgerUsed(k)
                 /\ last'.totalHours = contracts[k].totalHours
                 /\ last'.remaining = LedgerRemaining(k)]_vars

\* C7 witness: hoursRemaining has answered used 1 of 2 while the contract has
\* one linked activity that counts (VERIFIED or INVOICED) and one that does
\* not.
C7_Witness ==
    /\ last.op = "hoursRemaining" /\ last.code = 200
    /\ last.usedHours = 1 /\ last.remaining = 1
    /\ \E i, j \in DOMAIN activities :
          /\ activities[i].contractId = "k1"
          /\ activities[i].status \in {"VERIFIED", "INVOICED"}
          /\ activities[j].contractId = "k1"
          /\ activities[j].status \notin {"VERIFIED", "INVOICED"}
    /\ LedgerUsed("k1") = 1

\* C8: create with a stored contract and valid dates: when the requested
\* duration exceeds totalHours - used the call answers 400 with the
\* remaining hours and writes nothing; when it does not, the ledger check
\* passes and the call goes on to write the row.
C8_CreateCapacity ==
    [][\A p \in Procs, k \in DOMAIN contracts, iv \in LedgerIntervals :
        create(p, "c1", k, Null, iv[1], iv[2])
        => IF iv[2] - iv[1] > LedgerRemaining(k)
           THEN /\ last' = RespHours("create", 400, LedgerRemaining(k))
                /\ activities' = activities
                /\ nextId' = nextId
                /\ requests' = requests
           ELSE /\ requests'[p].pc = "create_write"
                /\ requests'[p].contractId = k]_vars

\* C8 witness: a create asking for more than the one hour left was refused
\* with remaining 1, and only the activity that used the other hour exists.
C8_Witness ==
    /\ last = RespHours("create", 400, 1)
    /\ LedgerRemaining("k1") = 1
    /\ nextId = 1
    /\ DOMAIN activities = {1}

\* The conflict set as the specification words it, in hours.
ConflictSet(workerId, start, end, excludeActivityId) ==
    {a \in DOMAIN activities :
        /\ activities[a].workerId = workerId
        /\ activities[a].status \in {"SCHEDULED", "IN_PROGRESS"}
        /\ a # excludeActivityId
        /\ activities[a].scheduledStart <= end
        /\ activities[a].scheduledEnd >= start}

QueryInstants == 0..3

\* C9: in every reachable state, for every worker, interval and excluded
\* activity, the service's checkWorkerAvailability returns exactly that
\* conflict set, with available true exactly when the set is empty; and an
\* answer of checkAvailability is available exactly when it lists no
\* conflicting activity.
C9_ExactConflictSet ==
    /\ \A w \in DOMAIN workers, s \in QueryInstants, e \in QueryInstants,
          x \in ActIds \cup {NoId} :
            LET got == checkWorkerAvailability(activities, w, s, e, x)
            IN /\ got.conflictingActivities = ConflictSet(w, s, e, x)
               /\ got.available <=> (ConflictSet(w, s, e, x) = {})
    /\ last.op = "checkAvailability"
          => (last.available <=> (last.conflictingActivities = {}))

\* C9 witness: checkAvailability has answered "not available" with a
\* conflict, while the worker's only committed activity ends at instant 1
\* and so conflicts with a query that starts at instant 1 (the intervals
\* touch) but not with one that starts at 2.
C9_Witness ==
    /\ last.op = "checkAvailability"
    /\ ~last.available
    /\ last.conflictingActivities = ConflictSet("w1", 1, 2, NoId)
    /\ \E a \in DOMAIN activities :
          /\ ConflictSet("w1", 1, 2, NoId) = {a}
          /\ activities[a].scheduledEnd = 1
    /\ ConflictSet("w1", 2, 3, NoId) = {}

\* C10: an assign call with a stored worker. Its availability step, when
\* the conflict set excluding the activity itself is not empty, answers 409
\* with that set, ends the call and writes nothing; otherwise the call goes
\* on, and its write step sets the stored activity's workerId to the worker
\* and its status to SCHEDULED, answering 200.
C10_AssignConflictOrSchedule ==
    [][\A p \in Procs :
        /\ (requests[p].pc = "assign_check" /\ requests'[p] # requests[p])
            => LET r == requests[p]
                   conflicts == ConflictSet(r.workerId, r.s, r.e, r.id)
               IN /\ activities' = activities
                  /\ IF conflicts # {}
                     THEN /\ last' = Resp409("assign", conflicts)
                          /\ requests'[p].pc = "idle"
                     ELSE /\ requests'[p].pc = "assign_update"
                          /\ requests'[p].workerId = r.workerId
                          /\ requests'[p].id = r.id
        /\ (/\ requests[p].pc = "assign_update"
            /\ requests'[p] # requests[p]
            /\ requests[p].workerId \in DOMAIN workers
            /\ requests[p].id \in DOMAIN activities)
            => /\ activities'[requests[p].id].workerId = requests[p].workerId
               /\ activities'[requests[p].id].status = "SCHEDULED"
               /\ last' = Resp("assign", 200)]_vars

\* C10 witness: an assign call was refused with 409 naming activity 1, which
\* an earlier assign call gave to worker w1 and made SCHEDULED; the refused
\* activity 2 still has no worker and is UNASSIGNED.
C10_Witness ==
    /\ last = Resp409("assign", {1})
    /\ DOMAIN activities = {1, 2}
    /\ activities[1].workerId = "w1" /\ activities[1].status = "SCHEDULED"
    /\ activities[2].workerId = Null /\ activities[2].status = "UNASSIGNED"

\* C11: an assign call whose workerId is cleared (null, or absent from the
\* body) runs no availability check (it goes from reading the activity
\* straight to the write), and its write on a stored activity sets status
\* UNASSIGNED and workerId null.
C11_ClearedAssignUnassigns ==
    [][\A p \in Procs :
        /\ (/\ requests[p].pc = "idle"
            /\ requests'[p].pc \in {"assign_check", "assign_update"}
            /\ requests'[p].workerId \in {Null, Undefined})
            => requests'[p].pc = "assign_update"
        /\ (/\ requests[p].pc = "assign_update"
            /\ requests'[p] # requests[p]
            /\ requests[p].workerId \in {Null, Undefined}
            /\ requests[p].id \in DOMAIN activities)
            => /\ activities'[requests[p].id].status = "UNASSIGNED"
               /\ activities'[requests[p].id].workerId = Null]_vars

\* C12: in every reachable state every activity whose status is UNASSIGNED
\* has workerId null.
C12_UnassignedHasNoWorker ==
    \A a \in DOMAIN activities :
        activities[a].status = "UNASSIGNED" => activities[a].workerId = Null

\* The activities of a client that an invoice run over [periodStart,
\* periodEnd] is to bill, as the specification words it, in hours.
EligibleForClient(c, periodStart, periodEnd) ==
    {a \in DOMAIN activities :
        /\ activities[a].clientId = c
        /\ activities[a].status = "VERIFIED"
        /\ activities[a].scheduledStart >= periodStart
        /\ activities[a].scheduledEnd <= periodEnd}

EligibleForWorker(w, periodStart, periodEnd) ==
    {a \in DOMAIN activities :
        /\ activities[a].workerId = w
        /\ activities[a].status = "VERIFIED"
        /\ activities[a].scheduledStart >= periodStart
        /\ activities[a].scheduledEnd <= periodEnd}

RateOrZero(c) ==
    IF "billingRate" \in DOMAIN clients[c] THEN clients[c].billingRate ELSE 0

HoursOf(S) == SumOver([a \in S |-> activities[a].durationHours], S)

ValidPeriods == {pr \in InvoicingPeriods : pr[1] < pr[2]}

\* C13: a client invoice run for a stored client over a valid period selects
\* exactly the client's VERIFIED activities that lie inside the period and
\* computes the sum of their durationHours times the client's billingRate
\* (0 when the client has none); the invoice it then creates is a DRAFT
\* CLIENT_BILL for that client and period with that totalAmount.
C13_ExactSelectionAndTotal ==
    [][\A p \in Procs :
        /\ \A c \in DOMAIN clients, pr \in ValidPeriods :
              generateClientInvoice(p, c, pr[1], pr[2])
              => /\ requests'[p].pc = "invoice_create"
                 /\ requests'[p].sel = EligibleForClient(c, pr[1], pr[2])
                 /\ requests'[p].total
                        = HoursOf(EligibleForClient(c, pr[1], pr[2])) * RateOrZero(c)
        /\ generateClientInvoice_create(p)
              => invoices' = Append(invoices,
                    [type |-> "CLIENT_BILL", entityId |-> requests[p].clientId,
                     totalAmount |-> requests[p].total,
                     periodStart |-> requests[p].s, periodEnd |-> requests[p].e,
                     status |-> "DRAFT", activities |-> requests[p].sel])]_vars

\* C13 witness: a DRAFT invoice of 50 for c1 over [0,2] counted activity 1
\* alone, while activity 2 of c1, VERIFIED on [1,3], lies partly outside the
\* period and was left VERIFIED.
C13_Witness ==
    /\ Len(invoices) = 1
    /\ invoices[1].type = "CLIENT_BILL" /\ invoices[1].status = "DRAFT"
    /\ invoices[1].entityId = "c1" /\ invoices[1].totalAmount = 50
    /\ invoices[1].periodStart = 0 /\ invoices[1].periodEnd = 2
    /\ invoices[1].activities = {1}
    /\ DOMAIN activities = {1, 2}
    /\ activities[1].status = "INVOICED"
    /\ activities[2].clientId = "c1" /\ activities[2].status = "VERIFIED"
    /\ activities[2].scheduledStart = 1 /\ activities[2].scheduledEnd = 3

\* C14, requests served one after the other: no step of a worker payout run
\* changes an activity; the run selects
\* the worker's VERIFIED activities inside the period and totals their
\* durationHours times the worker's hourlyRate; and a payout run that starts
\* right after a payout run for the same worker and period answered (no
\* other operation in between) selects the same activities and computes the
\* same totalAmount as the invoice that run stored.
C14_PayoutLeavesActivities ==
    [][\A p \in Procs :
        /\ (requests[p].pc = "idle" /\ requests'[p].pc = "payout_create")
            => LET r == requests'[p]
               IN /\ activities' = activities
                  /\ r.sel = EligibleForWorker(r.workerId, r.s, r.e)
                  /\ r.total = HoursOf(r.sel) * workers[r.workerId].hourlyRate
                  /\ (/\ last = Resp("workerPayout", 201)
                      /\ Len(invoices) > 0
                      /\ invoices[Len(invoices)].entityId = r.workerId
                      /\ invoices[Len(invoices)].periodStart = r.s
                      /\ invoices[Len(invoices)].periodEnd = r.e)
                     => /\ r.sel = invoices[Len(invoices)].activities
                        /\ r.total = invoices[Len(invoices)].totalAmount
        /\ (requests[p].pc = "payout_create" /\ requests'[p].pc = "idle")
            => /\ activities' = activities
               /\ Len(invoices') = Len(invoices) + 1
               /\ invoices'[Len(invoices')].type = "WORKER_PAYOUT"
               /\ invoices'[Len(invoices')].totalAmount = requests[p].total]_vars

\* C14 witness: two payout runs for w1 over [0,2], one right after the other,
\* stored two invoices of 20 that counted the same activity, which is still
\* VERIFIED.
C14_Witness ==
    /\ last = Resp("workerPayout", 201)
    /\ Len(invoices) = 2
    /\ \A i \in {1, 2} :
          /\ invoices[i].type = "WORKER_PAYOUT" /\ invoices[i].entityId = "w1"
          /\ invoices[i].periodStart = 0 /\ invoices[i].periodEnd = 2
          /\ invoices[i].totalAmount = 20
          /\ invoices[i].activities = {1}
    /\ 1 \in DOMAIN activities /\ activities[1].status = "VERIFIED"

\* C15: an invoice run or a payout run over a valid period for a client or
\* worker that is not stored answers 404 (NotFound), creates no invoice and
\* changes no activity.
C15_UnknownTargetNotFound ==
    [][\A p \in Procs, pr \in ValidPeriods :
        /\ generateClientInvoice(p, "c9", pr[1], pr[2])
              => /\ last'.code = 404
                 /\ UNCHANGED <<activities, invoices, requests>>
        /\ generateWorkerPayout(p, "w9", pr[1], pr[2])
              => /\ last'.code = 404
                 /\ UNCHANGED <<activities, invoices, requests>>]_vars

\* C16: an invoice run or a payout run with periodEnd <= periodStart answers
\* 400 (Validation) in the step that receives it, without entering the
\* service: activities, invoices and requests are unchanged; and every
\* stored invoice has periodStart < periodEnd.
C16_EmptyPeriodRefused ==
    [][/\ \A p \in Procs, pr \in InvoicingPeriods :
            pr[2] <= pr[1]
            => /\ \A c \in {"c1", "c2", "c9"} :
                    generateClientInvoice(p, c, pr[1], pr[2])
                    => /\ last' = Resp("clientInvoice", 400)
                       /\ UNCHANGED <<activities, invoices, requests>>
               /\ \A w \in {"w1", "w9"} :
                    generateWorkerPayout(p, w, pr[1], pr[2])
                    => /\ last' = Resp("workerPayout", 400)
                       /\ UNCHANGED <<activities, invoices, requests>>
       /\ \A i \in 1..Len(invoices') :
            invoices'[i].periodStart < invoices'[i].periodEnd]_vars

\* C16 witness: a client invoice run was refused with 400 while a VERIFIED
\* activity of c1 was waiting to be billed, and no invoice exists.
C16_Witness ==
    /\ last = Resp("clientInvoice", 400)
    /\ invoices = <<>>
    /\ \E a \in DOMAIN activities :
          activities[a].clientId = "c1" /\ activities[a].status = "VERIFIED"

\* C17: in every reachable state every stored activity has durationHours
\* equal to the hours from its scheduledStart to its scheduledEnd.
C17_DurationMatchesInterval ==
    \A a \in DOMAIN activities :
        activities[a].durationHours * 3600000
            = DateMs(activities[a].scheduledEnd) - DateMs(activities[a].scheduledStart)

\* C17 witness: a partial update has answered 200 and a stored activity now
\* runs from 1 to 3, an interval no create or full update asks for, with
\* durationHours 2.
C17_Witness ==
    /\ last = Resp("patch", 200)
    /\ \E a \in DOMAIN activities :
          /\ activities[a].scheduledStart = 1
          /\ activities[a].scheduledEnd = 3
          /\ activities[a].durationHours = 2

\* The scenario's store: activity 1, four hours, of client c1 and contract
\* k2, is the only activity.
OnlyActivityA ==
    /\ DOMAIN activities = {1}
    /\ activities[1].clientId = "c1" /\ activities[1].contractId = "k2"
    /\ activities[1].durationHours = 4

HoursAnswer(total, used, remaining) ==
    [op |-> "hoursRemaining", code |-> 200,
     totalHours |-> total, usedHours |-> used, remaining |-> remaining]

\* C18: with activity A as the only activity: an assign of w1 to A passes
\* the availability check and its write makes A SCHEDULED with w1 (200);
\* hoursRemaining(k2) answers total 10, used 4, remaining 6 while A is
\* VERIFIED and still used 4 while A is INVOICED; an invoice run for c1 over
\* [0,4] that starts while A is VERIFIED computes 200, stores an invoice of
\* 200 and its last step leaves A INVOICED.
C18_EndToEnd ==
    [][\A p \in Procs :
        /\ (OnlyActivityA /\ assignWorker_check(p))
              => requests'[p].pc = "assign_update"
        /\ (OnlyActivityA /\ assignWorker_update(p))
              => /\ activities'[1].status = "SCHEDULED"
                 /\ activities'[1].workerId = "w1"
                 /\ last' = Resp("assign", 200)
        /\ (OnlyActivityA /\ hoursRemaining("k2")
                /\ activities[1].status \in {"VERIFIED", "INVOICED"})
              => last' = HoursAnswer(10, 4, 6)
        /\ (OnlyActivityA /\ generateClientInvoice(p, "c1", 0, 4)
                /\ activities[1].status = "VERIFIED")
              => requests'[p].sel = {1} /\ requests'[p].total = 200
        /\ (generateClientInvoice_create(p) /\ requests[p].sel = {1}
                /\ requests[p].total = 200)
              => invoices'[Len(invoices')].totalAmount = 200
        /\ (OnlyActivityA /\ generateClientInvoice_updateMany(p)
                /\ requests[p].sel = {1})
              => activities'[1].status = "INVOICED"]_vars

\* C18 witness: A is INVOICED and assigned to w1, the stored invoice for c1
\* is of 200, and hoursRemaining(k2) has just answered total 10, used 4,
\* remaining 6.
C18_Witness ==
    /\ OnlyActivityA
    /\ activities[1].status = "INVOICED" /\ activities[1].workerId = "w1"
    /\ Len(invoices) = 1
    /\ invoices[1].totalAmount = 200 /\ invoices[1].activities = {1}
    /\ last = HoursAnswer(10, 4, 6)

\* C19: no step moves a stored invoice's status backward along DRAFT,
\* SENT, PAID, and no step changes a stored invoice's totalAmount, period,
\* type or target.
C19_InvoiceStatusForward ==
    [][\A i \in 1..Len(invoices) :
        /\ Len(invoices') >= Len(invoices)
        /\ InvoiceStatusIndex(invoices'[i].status)
                >= InvoiceStatusIndex(invoices[i].status)
        /\ invoices'[i] = [invoices[i] EXCEPT !.status = invoices'[i].status]]_vars

\* C20: an activity that is INVOICED and was counted by a completed
\* invoice run (no request is in flight) keeps that status in every later
\* step, for as long as it is stored.
C20_InvoicedIsTerminal ==
    [][\A a \in DOMAIN activities \cap DOMAIN activities' :
        (AllIdle /\ activities[a].status = "INVOICED" /\ a \in BilledActivities)
        => activities'[a].status = "INVOICED"]_vars

\* The activities an invoice run selected that are no longer stored as
\* VERIFIED (changed, or deleted, since the selection).
StaleSelection(p) ==
    {a \in requests[p].sel :
        a \notin DOMAIN activities \/ activities[a].status # "VERIFIED"}

\* C21: an invoice run whose selection has gone stale aborts: its create
\* step stores no invoice when a selected activity is no longer VERIFIED,
\* and its flip step changes no activity that is not VERIFIED.
C21_StaleRunAborts ==
    [][\A p \in Procs :
        /\ (generateClientInvoice_create(p) /\ StaleSelection(p) # {})
              => invoices' = invoices
        /\ (requests[p].pc = "invoice_update" /\ requests'[p].pc = "idle")
              => \A a \in StaleSelection(p) \cap DOMAIN activities :
                    activities'[a] = activities[a]]_vars

\* C22: a full or partial update handled in one step (no request is left
\* in flight) that links a stored activity to another contract leaves the
\* activity with a duration no greater than the hours that contract had
\* remaining; an update that would exceed them changes nothing.
C22_UpdateRechecksLedger ==
    [][\A id \in DOMAIN activities \cap DOMAIN activities' :
        (/\ requests' = requests
         /\ last'.op \in {"update", "patch"}
         /\ activities'[id].contractId # activities[id].contractId
         /\ activities'[id].contractId \in DOMAIN contracts)
        => activities'[id].durationHours
                <= LedgerRemaining(activities'[id].contractId)]_vars

\* C23: a create or a full update whose scheduledEnd is not after its
\* scheduledStart answers 400 and changes no activity; an activity enters
\* the table with status UNASSIGNED; and after every step every stored
\* activity has scheduledStart < scheduledEnd.
C23_DatesOrdered ==
    [][/\ \A p \in Procs, s \in 0..3, e \in 0..3 :
            e <= s
            => /\ create(p, "c1", Null, Null, s, e)
                    => /\ last' = Resp("create", 400)
                       /\ UNCHANGED <<activities, nextId, requests>>
               /\ \A id \in ActIds :
                    update(p, id, "c1", Undefined, Undefined, s, e)
                    => /\ last' = Resp("update", 400)
                       /\ UNCHANGED <<activities, nextId, requests>>
       /\ \A a \in DOMAIN activities' \ DOMAIN activities :
            activities'[a].status = "UNASSIGNED"
       /\ \A a \in DOMAIN activities' :
            activities'[a].scheduledStart < activities'[a].scheduledEnd]_vars

\* C23 witness: a create with an empty interval was refused with 400 while
\* an activity created earlier, still UNASSIGNED, is the only one stored.
C23_Witness ==
    /\ last = Resp("create", 400)
    /\ nextId = 1
    /\ DOMAIN activities = {1}
    /\ activities[1].status = "UNASSIGNED"
    /\ activities[1].scheduledStart < activities[1].scheduledEnd

\* The hours an activity contributes to the used total of contract k.
CountedHours(a, k) ==
    IF a.contractId = k /\ a.status \in {"VERIFIED", "INVOICED"}
    THEN a.durationHours ELSE 0

\* C24: deleting a stored activity, whatever its status, answers 204 and
\* removes that activity alone: every other activity, every invoice and
\* every request in flight is unchanged, and each contract's used total
\* drops by exactly the hours the deleted activity counted in it.
C24_DeleteRemovesOnlyTarget ==
    [][\A id \in DOMAIN activities :
        deleteActivity(id)
        => /\ last' = Resp("delete", 204)
           /\ DOMAIN activities' = DOMAIN activities \ {id}
           /\ \A o \in DOMAIN activities \ {id} : activities'[o] = activities[o]
           /\ invoices' = invoices
           /\ requests' = requests
           /\ \A k \in DOMAIN contracts :
                LedgerUsed(k)' = LedgerUsed(k) - CountedHours(activities[id], k)]_vars

\* C24 witness: activity 1 was billed on the stored invoice and then
\* deleted; activity 2, INVOICED and linked to k1, is still stored with its
\* two hours counted, and the invoice still lists activity 1.
C24_Witness ==
    /\ last = Resp("delete", 204)
    /\ DOMAIN activities = {2}
    /\ activities[2].status = "INVOICED"
    /\ activities[2].contractId = "k1"
    /\ LedgerUsed("k1") = 2
    /\ Len(invoices) = 1
    /\ 1 \in invoices[1].activities

\* The hours of the activities linked to contract k that are not yet
\* VERIFIED or INVOICED.
PendingHours(k) ==
    LET linked == {i \in DOMAIN activities :
                        /\ activities[i].contractId = k
                        /\ activities[i].status \notin {"VERIFIED", "INVOICED"}}
    IN SumOver([i \in linked |-> activities[i].durationHours], linked)

\* C25: a create against contract k asking for no more than k's remaining
\* hours passes the ledger check even when the hours of k's not yet verified
\* activities plus the requested hours exceed the remaining hours, and the
\* write that follows stores the activity, linked to k and UNASSIGNED.
C25_LookAheadNotReservation ==
    [][\A p \in Procs :
        /\ \A k \in DOMAIN contracts, iv \in LedgerIntervals :
              (/\ create(p, "c1", k, Null, iv[1], iv[2])
               /\ iv[2] - iv[1] <= LedgerRemaining(k)
               /\ PendingHours(k) + (iv[2] - iv[1]) > LedgerRemaining(k))
              => /\ requests'[p].pc = "create_write"
                 /\ requests'[p].contractId = k
                 /\ activities' = activities
        /\ (create_write(p) /\ requests[p].contractId \in DOMAIN contracts)
              => /\ last' = Resp("create", 201)
                 /\ DOMAIN activities' = DOMAIN activities \cup {nextId'}
                 /\ activities'[nextId'].contractId = requests[p].contractId
                 /\ activities'[nextId'].status = "UNASSIGNED"
                 /\ activities'[nextId'].durationHours = requests[p].e - requests[p].s]_vars

\* C25 witness: two creates against k1 (two hours in all) have both
\* succeeded with two hours each; neither activity is VERIFIED or INVOICED,
\* so four hours are pending against two remaining.
C25_Witness ==
    /\ last = Resp("create", 201)
    /\ DOMAIN activities = {1, 2}
    /\ \A i \in {1, 2} : /\ activities[i].contractId = "k1"
                          /\ activities[i].durationHours = 2
                          /\ activities[i].status \notin {"VERIFIED", "INVOICED"}
    /\ PendingHours("k1") = 4
    /\ LedgerRemaining("k1") = 2

\* C26: assign and setStatus on an activity that is not stored, and the
\* write of an assign whose workerId names no stored worker, answer 404 and
\* leave every stored activity unchanged.
C26_AbsentEntityNotFound ==
    [][\A p \in Procs :
        /\ \A id \in ActIds \ DOMAIN activities :
              /\ \A w \in DOMAIN workers \cup {"w9", Null} :
                    assignWorker(p, id, w)
                    => last' = Resp("assign", 404) /\ activities' = activities
              /\ \A st \in StatusSet :
                    updateStatus(id, st)
                    => last' = Resp("updateStatus", 404) /\ activities' = activities
        /\ (/\ assignWorker_update(p)
            /\ requests[p].id \in DOMAIN activities
            /\ requests[p].workerId \notin DOMAIN workers \cup {Null, Undefined})
              => last' = Resp("assign", 404) /\ activities' = activities]_vars

\* C27: no worker has two distinct stored activities, both SCHEDULED or
\* IN_PROGRESS, whose intervals conflict.
C27_NoDoubleBooking ==
    \A a \in DOMAIN activities, b \in DOMAIN activities :
        (/\ a # b
         /\ activities[a].workerId \in DOMAIN workers
         /\ activities[a].workerId = activities[b].workerId
         /\ activities[a].status \in {"SCHEDULED", "IN_PROGRESS"}
         /\ activities[b].status \in {"SCHEDULED", "IN_PROGRESS"})
        => ~Overlap(activities[a].scheduledStart, activities[a].scheduledEnd,
                    activities[b].scheduledStart, activities[b].scheduledEnd)

\* C28: for every contract the hours of its VERIFIED and INVOICED
\* activities sum to at most its totalHours.
C28_CapacityNeverExceeded ==
    \A k \in DOMAIN contracts : LedgerUsed(k) <= contracts[k].totalHours

\* C29: the write of an assign on an activity that is IN_PROGRESS, DONE or
\* VERIFIED never moves its status backward in the order UNASSIGNED,
\* SCHEDULED, IN_PROGRESS, DONE, VERIFIED, INVOICED.
C29_AssignNeverMovesBack ==
    [][\A p \in Procs :
        (/\ assignWorker_update(p)
         /\ requests[p].id \in DOMAIN activities
         /\ activities[requests[p].id].status \in {"IN_PROGRESS", "DONE", "VERIFIED"})
        => StatusIndex(activities'[requests[p].id].status)
               >= StatusIndex(activities[requests[p].id].status)]_vars

\* C30: a full update of a VERIFIED or INVOICED activity linked to contract
\* k that names the same contract and the same dates passes the ledger
\* check whenever k's used hours are at most its totalHours.
C30_UpdateNotCountedAgainstItself ==
    [][\A p \in Procs, id \in DOMAIN activities :
        (/\ activities[id].status \in {"VERIFIED", "INVOICED"}
         /\ activities[id].contractId \in DOMAIN contracts
         /\ LedgerUsed(activities[id].contractId)
                <= contracts[activities[id].contractId].totalHours
         /\ update(p, id, activities[id].clientId, activities[id].contractId,
                   Undefined, activities[id].scheduledStart,
                   activities[id].scheduledEnd))
        => /\ requests'[p].pc = "update_write"
           /\ last' = last]_vars

====
